---- MODULE Spec2Model ----
(***************************************************************************)
(* Vibello upload page: the client-side job orchestration of               *)
(* frontend/src/pages/UploadPage.jsx and frontend/src/lib/api.js.          *)
(*                                                                         *)
(* The component is single-threaded: every handler, timer callback and     *)
(* promise continuation runs to completion, so each is one action.  What   *)
(* interleaves are the outstanding asynchronous operations: the upload     *)
(* XHR, the render-start fetches, the poll interval and the poll fetches.  *)
(* handleUpload and handleStartRender are callable in every mounted state;  *)
(* their own early return is part of the action and leaves every variable  *)
(* as it was.  clearAll and removeFile have no guard of their own and are   *)
(* reachable only through buttons, which the page disables while busy.     *)
(***************************************************************************)
EXTENDS Integers, Sequences, FiniteSets, Bags, TLC

VARIABLES
  files,         \* useState([]): sequence of [id, previewUrl]
  revokes,       \* revokes[h]: number of URL.revokeObjectURL calls on handle h
  isUploading,   \* useState(false)
  uploadPct,     \* useState(0)
  uploadError,   \* useState('')
  job,           \* useState(null): NoJob or the job_id of the upload response
  renderId,      \* useState(null): NoRender or a render_id
  renderStatus,  \* useState(null): Null | queued | processing | done | error
  renderPct,     \* useState(0)
  renderErr,     \* useState('')
  downloadUrl,   \* useState('')
  pollRef,       \* useRef(null): NoTimer or the interval handle
  mounted,       \* the component has not been unmounted
  xhrs,          \* upload requests in flight
  startReqs,     \* render-start fetches in flight
  timers,        \* live setInterval handles
  pollReqs,      \* bag of status fetches in flight
  srv,           \* backend: render_id -> [job_id, status] of the render
  drops,         \* number of onDrop calls so far
  uploads,       \* number of upload requests sent so far
  starts,        \* number of render-start requests sent so far
  ticks,         \* number of status fetches sent so far
  pollCaught     \* a failed status fetch has reached the empty catch block

vars == <<files, revokes, isUploading, uploadPct, uploadError, job, renderId,
          renderStatus, renderPct, renderErr, downloadUrl, pollRef, mounted,
          xhrs, startReqs, timers, pollReqs, srv, drops, uploads, starts,
          ticks, pollCaught>>

uploadVars == <<isUploading, uploadPct, uploadError, job, xhrs, uploads>>
renderVars == <<renderId, renderStatus, renderPct, renderErr, downloadUrl>>
pollVars   == <<pollRef, startReqs, timers, pollReqs, srv, starts, ticks,
               pollCaught>>

(***************************************************************************)
(* Program constants                                                       *)
(***************************************************************************)
SliceCap == 25            \* .slice(0, 25)
DropzoneMaxFiles == 25    \* useDropzone({ maxFiles: 25 })
API_URL == "http://localhost:8000"
Null == "null"            \* renderStatus null
NoJob == 0                \* job null
NoRender == 0             \* renderId null
NoTimer == 0              \* pollRef.current null

(***************************************************************************)
(* Bounds of the model                                                     *)
(***************************************************************************)
MaxDrops == 2             \* onDrop calls in the staging specification
MaxSmallDrops == 2        \* onDrop calls in the orchestration specification
MaxRequests == 4          \* requests sent: uploads, render starts, status fetches

Min(a, b) == IF a < b THEN a ELSE b

\* requests sent so far
Sent == uploads + starts + ticks

\* distinct file identities (name-size-lastModified) the user picks from
FileIds == {1, 2}

\* (e.loaded, e.total) of the upload progress events of one request
ProgressEvents == { [loaded |-> l, total |-> 2] : l \in 0..2 }

\* accepted files of one drop: n files whose identities cycle from offset o
Batch(n, o) == [i \in 1..n |-> ((i + o) % Cardinality(FileIds)) + 1]

\* drops of the staging specification: react-dropzone accepts at most
\* maxFiles files per drop and calls onDrop with none when all are rejected
StagingBatches ==
  { Batch(n, o) : n \in {0, 1, 12, DropzoneMaxFiles}, o \in 0..1 }

\* drops of the orchestration specification
SmallBatches == { Batch(1, 0) }

(***************************************************************************)
(* React: a state setter called after unmount has no effect                *)
(***************************************************************************)
St(cur, new) == IF mounted THEN new ELSE cur

(***************************************************************************)
(* Preview handles                                                         *)
(***************************************************************************)
\* files.forEach(f => URL.revokeObjectURL(f.previewUrl))
RevokeEach(rv, fs) ==
  [h \in DOMAIN rv |->
     rv[h] + Cardinality({i \in DOMAIN fs : fs[i].previewUrl = h})]

\* useEffect(() => () => files.forEach(revoke), [files]): the cleanup of the
\* previous effect runs with the previous array whenever setFiles installs a
\* new array, and on unmount
FilesEffectCleanup(rv, prevFiles) == RevokeEach(rv, prevFiles)

\* accepted.map(file => ({file, previewUrl: URL.createObjectURL(file), id}))
Mapped(accepted, created) ==
  [i \in 1..Len(accepted) |-> [id |-> accepted[i], previewUrl |-> created + i]]

\* faulty variant of AppendCapped: the slice is forgotten
AppendUncapped(prev, mapped) == prev \o mapped

\* faulty variant of AppendCapped: the last 25 entries are kept, not the first
AppendKeepLast(prev, mapped) ==
  LET all == prev \o mapped
  IN SubSeq(all, Len(all) - Min(Len(all), SliceCap) + 1, Len(all))

\* [...prev, ...mapped].slice(0, 25)
AppendCapped(prev, mapped) ==
  SubSeq(prev \o mapped, 1, Min(Len(prev) + Len(mapped), SliceCap))

\* prev.filter(f => f.id !== id)
FilterOut(prev, id) == SelectSeq(prev, LAMBDA f : f.id # id)

Init ==
  /\ files = <<>>
  /\ revokes = <<>>
  /\ isUploading = FALSE
  /\ uploadPct = 0
  /\ uploadError = ""
  /\ job = NoJob
  /\ renderId = NoRender
  /\ renderStatus = Null
  /\ renderPct = 0
  /\ renderErr = ""
  /\ downloadUrl = ""
  /\ pollRef = NoTimer
  /\ mounted = TRUE
  /\ xhrs = {}
  /\ startReqs = {}
  /\ timers = {}
  /\ pollReqs = EmptyBag
  /\ srv = <<>>
  /\ drops = 0
  /\ uploads = 0
  /\ starts = 0
  /\ ticks = 0
  /\ pollCaught = FALSE

(***************************************************************************)
(* Staging                                                                 *)
(***************************************************************************)
\* faulty variant of OnDrop: the render identifier and status survive the drop
OnDropKeepsRender(accepted) ==
  /\ mounted
  /\ LET mapped == Mapped(accepted, Len(revokes))
         created == revokes \o [i \in 1..Len(accepted) |-> 0]
     IN /\ files' = AppendCapped(files, mapped)
        /\ revokes' = FilesEffectCleanup(created, files)
  /\ job' = NoJob
  /\ downloadUrl' = ""
  /\ renderErr' = ""
  /\ uploadError' = ""
  /\ uploadPct' = 0
  /\ renderPct' = 0
  /\ drops' = drops + 1
  /\ UNCHANGED <<isUploading, xhrs, uploads, mounted, renderId, renderStatus>>
  /\ UNCHANGED pollVars

OnDrop(accepted) ==
  /\ mounted
  /\ LET mapped == Mapped(accepted, Len(revokes))
         created == revokes \o [i \in 1..Len(accepted) |-> 0]
     IN /\ files' = AppendCapped(files, mapped)
        /\ revokes' = FilesEffectCleanup(created, files)
  /\ job' = NoJob
  /\ renderId' = NoRender
  /\ renderStatus' = Null
  /\ downloadUrl' = ""
  /\ renderErr' = ""
  /\ uploadError' = ""
  /\ uploadPct' = 0
  /\ renderPct' = 0
  /\ drops' = drops + 1
  /\ UNCHANGED <<isUploading, xhrs, uploads, mounted>>
  /\ UNCHANGED pollVars

\* faulty variant of ButtonsDisabled: the buttons stay enabled while uploading
ButtonsDisabledRenderOnly ==
  renderStatus = "processing" \/ renderStatus = "queued"

\* disabled={isUploading || renderStatus === 'processing' || renderStatus === 'queued'}
\* on the Clear all button and on the remove button of each staged file
ButtonsDisabled ==
  isUploading \/ renderStatus = "processing" \/ renderStatus = "queued"

RemoveFile(id) ==
  /\ mounted
  /\ ~ButtonsDisabled
  /\ \E i \in DOMAIN files : files[i].id = id
  /\ files' = FilterOut(files, id)
  /\ revokes' = FilesEffectCleanup(revokes, files)
  /\ UNCHANGED <<drops, mounted>>
  /\ UNCHANGED uploadVars
  /\ UNCHANGED renderVars
  /\ UNCHANGED pollVars

ClearAll ==
  /\ mounted
  /\ ~ButtonsDisabled
  /\ files' = <<>>
  /\ revokes' = FilesEffectCleanup(RevokeEach(revokes, files), files)
  /\ job' = NoJob
  /\ renderId' = NoRender
  /\ renderStatus' = Null
  /\ downloadUrl' = ""
  /\ uploadError' = ""
  /\ renderErr' = ""
  /\ uploadPct' = 0
  /\ renderPct' = 0
  /\ UNCHANGED <<isUploading, xhrs, uploads, drops, mounted>>
  /\ UNCHANGED pollVars

\* clearInterval(h): a null or already cleared handle is ignored
ClearInterval(live, h) == live \ {h}

\* unmount: the cleanups of the [files] effect and of the [] effect run, and
\* React discards the component's state (every useState value is gone; the
\* ref, the timers and the requests in flight live on)
Unmount ==
  /\ mounted
  /\ mounted' = FALSE
  /\ revokes' = FilesEffectCleanup(revokes, files)
  /\ timers' = IF pollRef # NoTimer THEN ClearInterval(timers, pollRef) ELSE timers
  /\ files' = <<>>
  /\ isUploading' = FALSE
  /\ uploadPct' = 0
  /\ uploadError' = ""
  /\ job' = NoJob
  /\ renderId' = NoRender
  /\ renderStatus' = Null
  /\ renderPct' = 0
  /\ renderErr' = ""
  /\ downloadUrl' = ""
  /\ UNCHANGED <<drops, pollRef, startReqs, pollReqs, srv, starts, ticks,
                 pollCaught, xhrs, uploads>>

(***************************************************************************)
(* Upload: handleUpload and lib/api.js uploadFiles                         *)
(***************************************************************************)
\* faulty variant of UploadGuard: the upload in progress is not checked
UploadGuardNoFlight == files # <<>>

\* if (!files.length || isUploading) return;
UploadGuard == files # <<>> /\ ~isUploading

\* Math.round((e.loaded / e.total) * 100)
RoundPct(loaded, total) == (200 * loaded + total) \div (2 * total)

\* faulty variant of Ok2xx: only 200 counts as success
Ok200Only(status) == status = 200

\* const ok = xhr.status >= 200 && xhr.status < 300
Ok2xx(status) == status >= 200 /\ status < 300

\* xhr.response?.detail || `Upload failed (${xhr.status})`
UploadFailMessage(status, body) ==
  IF "detail" \in DOMAIN body /\ body.detail # ""
    THEN body.detail
    ELSE "Upload failed (" \o ToString(status) \o ")"

\* e.message || fallback
MessageOr(message, fallback) == IF message # "" THEN message ELSE fallback

\* faulty variant of HandleUpload: the previous job survives the retry
HandleUploadKeepsJob ==
  /\ mounted
  /\ IF ~UploadGuard
       THEN UNCHANGED vars
       ELSE /\ Sent < MaxRequests
            /\ isUploading' = TRUE
            /\ uploadPct' = 0
            /\ uploadError' = ""
            /\ renderId' = NoRender
            /\ renderStatus' = Null
            /\ downloadUrl' = ""
            /\ uploads' = uploads + 1
            /\ xhrs' = xhrs \cup {[n |-> uploads + 1, files |-> files, loaded |-> 0]}
            /\ UNCHANGED <<files, revokes, drops, mounted, renderPct, renderErr, job>>
            /\ UNCHANGED pollVars

HandleUpload ==
  /\ mounted
  /\ IF ~UploadGuard
       THEN UNCHANGED vars
       ELSE /\ Sent < MaxRequests
            /\ isUploading' = TRUE
            /\ uploadPct' = 0
            /\ uploadError' = ""
            /\ job' = NoJob
            /\ renderId' = NoRender
            /\ renderStatus' = Null
            /\ downloadUrl' = ""
            /\ uploads' = uploads + 1
            /\ xhrs' = xhrs \cup {[n |-> uploads + 1, files |-> files, loaded |-> 0]}
            /\ UNCHANGED <<files, revokes, drops, mounted, renderPct, renderErr>>
            /\ UNCHANGED pollVars

\* xhr.upload.onprogress: loaded never decreases; pct => setUploadPct(pct)
UploadProgress(x, e, lengthComputable) ==
  /\ x \in xhrs
  /\ e.loaded >= x.loaded
  /\ xhrs' = (xhrs \ {x}) \cup {[x EXCEPT !.loaded = e.loaded]}
  /\ uploadPct' = IF lengthComputable
                    THEN St(uploadPct, RoundPct(e.loaded, e.total))
                    ELSE uploadPct
  /\ UNCHANGED <<files, revokes, drops, mounted, isUploading, uploadError, job,
                 uploads>>
  /\ UNCHANGED renderVars
  /\ UNCHANGED pollVars

\* xhr.onload: a 2xx resolves with xhr.response (null when the body is not
\* JSON), anything else rejects; then the try/catch/finally of handleUpload
UploadLoad(x, status, body) ==
  /\ x \in xhrs
  /\ xhrs' = xhrs \ {x}
  /\ IF Ok2xx(status)
       THEN /\ job' = St(job, IF "job_id" \in DOMAIN body THEN body.job_id ELSE NoJob)
            /\ uploadPct' = St(uploadPct, 100)
            /\ UNCHANGED uploadError
       ELSE /\ uploadError' =
                 St(uploadError, MessageOr(UploadFailMessage(status, body), "Upload failed"))
            /\ uploadPct' = St(uploadPct, 0)
            /\ UNCHANGED job
  /\ isUploading' = St(isUploading, FALSE)
  /\ UNCHANGED <<files, revokes, drops, mounted, uploads>>
  /\ UNCHANGED renderVars
  /\ UNCHANGED pollVars

\* faulty variant of UploadNetworkError: the finally block is missing
UploadNetworkErrorNoFinally(x) ==
  /\ x \in xhrs
  /\ xhrs' = xhrs \ {x}
  /\ uploadError' = St(uploadError, MessageOr("Network error during upload.", "Upload failed"))
  /\ uploadPct' = St(uploadPct, 0)
  /\ UNCHANGED <<files, revokes, drops, mounted, job, uploads, isUploading>>
  /\ UNCHANGED renderVars
  /\ UNCHANGED pollVars

\* xhr.onerror: reject(new Error('Network error during upload.'))
UploadNetworkError(x) ==
  /\ x \in xhrs
  /\ xhrs' = xhrs \ {x}
  /\ uploadError' = St(uploadError, MessageOr("Network error during upload.", "Upload failed"))
  /\ uploadPct' = St(uploadPct, 0)
  /\ isUploading' = St(isUploading, FALSE)
  /\ UNCHANGED <<files, revokes, drops, mounted, job, uploads>>
  /\ UNCHANGED renderVars
  /\ UNCHANGED pollVars

\* answers of POST /api/upload to the request numbered n
UploadAnswers(n) ==
  { [status |-> 200, body |-> [job_id |-> n]],
    [status |-> 500, body |-> [detail |-> "disk full"]] }

(***************************************************************************)
(* Backend: renders and the bodies of GET /api/render/{id}/status          *)
(***************************************************************************)
Terminal(status) == status \in {"done", "error"}
Live(status) == status \in {"queued", "processing"}

\* {status, progress, download_url?, error?} of a render in the given status
StatusBody(status) ==
  CASE status = "queued"     -> [status |-> "queued"]
    [] status = "processing" -> [status |-> "processing", progress |-> 40]
    [] status = "done"       -> [status |-> "done", progress |-> 100,
                                 download_url |-> "/dl/x.mp4"]
    [] status = "error"      -> [status |-> "error", progress |-> 40,
                                 error |-> "ffmpeg failed"]

\* the render makes progress on the backend
BackendStep(r) ==
  /\ r \in DOMAIN srv
  /\ \E next \in {"processing", "done", "error"} :
       /\ \/ srv[r].status = "queued" /\ next = "processing"
          \/ srv[r].status = "processing" /\ Terminal(next)
       /\ srv' = [srv EXCEPT ![r].status = next]
  /\ UNCHANGED <<files, revokes, drops, mounted, pollRef, startReqs, timers,
                 pollReqs, starts, ticks, pollCaught>>
  /\ UNCHANGED uploadVars
  /\ UNCHANGED renderVars

(***************************************************************************)
(* Render: handleStartRender, lib/api.js startRender and fetchRenderStatus *)
(***************************************************************************)
\* faulty variant of StartGuard: the job is not checked
StartGuardNoJob == renderStatus # "processing" /\ renderStatus # "queued"

\* if (!job?.job_id || renderStatus === 'processing' || renderStatus === 'queued') return;
StartGuard == job # NoJob /\ renderStatus # "processing" /\ renderStatus # "queued"

\* r.status || 'queued'
StatusOrQueued(r) == IF "status" \in DOMAIN r /\ r.status # "" THEN r.status ELSE "queued"

\* s.status, undefined when the body has no such field
StatusOf(s) == IF "status" \in DOMAIN s THEN s.status ELSE "undefined"

\* s.progress ?? 0
ProgressOrZero(s) == IF "progress" \in DOMAIN s THEN s.progress ELSE 0

\* the part of handleStartRender before the await
HandleStartRender ==
  /\ mounted
  /\ IF ~StartGuard
       THEN UNCHANGED vars
       ELSE /\ Sent < MaxRequests
            /\ renderErr' = ""
            /\ renderPct' = 0
            /\ starts' = starts + 1
            /\ startReqs' = startReqs \cup {[n |-> starts + 1, job_id |-> job]}
            /\ UNCHANGED <<files, revokes, drops, mounted, renderId, renderStatus,
                           downloadUrl, pollRef, timers, pollReqs, srv, ticks,
                           pollCaught>>
            /\ UNCHANGED uploadVars

\* faulty variant of InstallInterval: the previous interval is not cleared
InstallIntervalNoClear(live, ref, handle) == live \cup {handle}

\* if (pollRef.current) clearInterval(pollRef.current);
\* pollRef.current = setInterval(...)
InstallInterval(live, ref, handle) ==
  (IF ref # NoTimer THEN ClearInterval(live, ref) ELSE live) \cup {handle}

\* POST /api/render answered 2xx with {render_id, status}: the backend has
\* created the render; the continuation stores it and installs the interval.
\* The interval handle is named after the render it polls.
StartRenderResolved(q, r) ==
  /\ q \in startReqs
  /\ r.render_id = q.n
  /\ startReqs' = startReqs \ {q}
  /\ srv' = srv @@ (r.render_id :> [job_id |-> q.job_id, status |-> "queued"])
  /\ renderId' = St(renderId, r.render_id)
  /\ renderStatus' = St(renderStatus, StatusOrQueued(r))
  /\ timers' = InstallInterval(timers, pollRef, r.render_id)
  /\ pollRef' = r.render_id
  /\ UNCHANGED <<files, revokes, drops, mounted, renderPct, renderErr,
                 downloadUrl, pollReqs, starts, ticks, pollCaught>>
  /\ UNCHANGED uploadVars

\* startRender throws: !res.ok gives 'Render start failed', a rejected fetch
\* its own message; the catch stores e.message || 'Could not start render'
StartRenderRejected(q, message) ==
  /\ q \in startReqs
  /\ startReqs' = startReqs \ {q}
  /\ renderErr' = St(renderErr, MessageOr(message, "Could not start render"))
  /\ UNCHANGED <<files, revokes, drops, mounted, renderId, renderStatus,
                 renderPct, downloadUrl, pollRef, timers, pollReqs, srv, starts,
                 ticks, pollCaught>>
  /\ UNCHANGED uploadVars

\* bodies and failures of POST /api/render for the request numbered n
StartBodies(n) == { [render_id |-> n, status |-> "queued"], [render_id |-> n] }
StartFailures == { "Render start failed" }

\* the interval fires: fetchRenderStatus(r.render_id) is sent; the backend
\* answers with the status the render has at that moment
PollTick(t) ==
  /\ t \in timers
  /\ Sent < MaxRequests
  /\ ticks' = ticks + 1
  /\ pollReqs' = pollReqs (+) SetToBag({[render_id |-> t, status |-> srv[t].status]})
  /\ UNCHANGED <<files, revokes, drops, mounted, pollRef, startReqs, timers,
                 srv, starts, pollCaught>>
  /\ UNCHANGED uploadVars
  /\ UNCHANGED renderVars

Threw == [threw |-> TRUE]

\* faulty variant of FetchRenderStatus: the !res.ok test is missing and the
\* error body is returned
FetchRenderStatusNoOkCheck(p, outcome) ==
  IF outcome = "ok" THEN StatusBody(p.status)
  ELSE IF outcome = "non2xx" THEN [detail |-> "Render status not found"]
  ELSE Threw

\* fetchRenderStatus: a rejected fetch, !res.ok and a body res.json() cannot
\* parse all throw; otherwise the parsed body is returned
FetchRenderStatus(p, outcome) ==
  IF outcome = "ok" THEN StatusBody(p.status) ELSE Threw

PollOutcomes == {"ok", "reject", "non2xx", "badjson"}

\* faulty variant of StopsPolling: a render error does not stop the polling
StopsPollingDoneOnly(status) == status = "done"

\* if (s.status === 'done' || s.status === 'error')
StopsPolling(status) == status = "done" \/ status = "error"

\* the await in the interval callback settles
PollSettled(p, outcome) ==
  /\ BagIn(p, pollReqs)
  /\ pollReqs' = pollReqs (-) SetToBag({p})
  /\ LET s == FetchRenderStatus(p, outcome)
     IN IF s = Threw
          THEN /\ pollCaught' = TRUE
               /\ UNCHANGED renderVars
               /\ UNCHANGED <<pollRef, timers>>
          ELSE /\ renderStatus' = St(renderStatus, StatusOf(s))
               /\ renderPct' = St(renderPct, ProgressOrZero(s))
               /\ downloadUrl' = IF "download_url" \in DOMAIN s
                                   THEN St(downloadUrl, API_URL \o s.download_url)
                                   ELSE downloadUrl
               /\ IF StopsPolling(StatusOf(s))
                    THEN /\ timers' = ClearInterval(timers, pollRef)
                         /\ pollRef' = NoTimer
                         /\ renderErr' = IF "error" \in DOMAIN s /\ s.error # ""
                                           THEN St(renderErr, s.error)
                                           ELSE renderErr
                    ELSE UNCHANGED <<timers, pollRef, renderErr>>
               /\ UNCHANGED <<renderId, pollCaught>>
  /\ UNCHANGED <<files, revokes, drops, mounted, startReqs, srv, starts, ticks>>
  /\ UNCHANGED uploadVars

(***************************************************************************)
(* Orchestration specification                                             *)
(***************************************************************************)
Next ==
  \/ \E b \in SmallBatches : drops < MaxSmallDrops /\ OnDrop(b)
  \/ \E id \in FileIds : RemoveFile(id)
  \/ ClearAll
  \/ Unmount
  \/ HandleUpload
  \/ \E x \in xhrs, e \in ProgressEvents, lc \in BOOLEAN : UploadProgress(x, e, lc)
  \/ \E x \in xhrs : \E a \in UploadAnswers(x.n) : UploadLoad(x, a.status, a.body)
  \/ \E x \in xhrs : UploadNetworkError(x)
  \/ HandleStartRender
  \/ \E q \in startReqs : \E r \in StartBodies(q.n) : StartRenderResolved(q, r)
  \/ \E q \in startReqs, m \in StartFailures : StartRenderRejected(q, m)
  \/ \E r \in DOMAIN srv : BackendStep(r)
  \/ \E t \in timers : PollTick(t)
  \/ \E p \in BagToSet(pollReqs), o \in PollOutcomes : PollSettled(p, o)

Spec == Init /\ [][Next]_vars

(***************************************************************************)
(* Staging specification: drops of up to maxFiles files, removals, clear   *)
(* and unmount                                                             *)
(***************************************************************************)
StagingNext ==
  \/ \E b \in StagingBatches : drops < MaxDrops /\ OnDrop(b)
  \/ \E id \in FileIds : RemoveFile(id)
  \/ ClearAll
  \/ Unmount

SpecStaging == Init /\ [][StagingNext]_vars

(***************************************************************************)
(* Upload specification: staging and upload only, with every kind of       *)
(* answer of POST /api/upload                                              *)
(***************************************************************************)
UploadStatuses == {199, 200, 299, 300, 500}

AllUploadAnswers(n) ==
  { [status |-> st, body |-> b] :
      st \in UploadStatuses,
      b \in { [job_id |-> n], [detail |-> "disk full"], <<>> } }

UploadNext ==
  \/ \E b \in SmallBatches : drops < MaxDrops /\ OnDrop(b)
  \/ \E id \in FileIds : RemoveFile(id)
  \/ ClearAll
  \/ Unmount
  \/ HandleUpload
  \/ \E x \in xhrs, e \in ProgressEvents, lc \in BOOLEAN : UploadProgress(x, e, lc)
  \/ \E x \in xhrs : \E a \in AllUploadAnswers(x.n) : UploadLoad(x, a.status, a.body)
  \/ \E x \in xhrs : UploadNetworkError(x)

SpecUpload == Init /\ [][UploadNext]_vars

(***************************************************************************)
(* Preview handles: properties                                             *)
(***************************************************************************)
Handles == DOMAIN revokes
Outstanding == {h \in Handles : revokes[h] = 0}
Overflowed == Len(revokes) > Len(files) /\ Len(files) = SliceCap

\* C2: no preview handle is revoked more than once, over any sequence of
\* onDrop, removeFile, clearAll and unmount.
C2_RevokedAtMostOnce == \A h \in Handles : revokes[h] <= 1

\* C3: after clearAll or unmount no created handle is left unreleased, also
\* when a drop pushed the staging set past the cap.
C3_NoLeakAfterClear == [][(ClearAll \/ Unmount) => Outstanding' = {}]_vars

\* C4: the staging set never holds more than 25 entries.
C4_AtMostCap == Len(files) <= SliceCap

\* C4 witness: a drop that would have gone past the cap was truncated.
C4_Witness == Overflowed /\ drops >= 2

(***************************************************************************)
(* Orchestration: properties                                               *)
(***************************************************************************)
UserAction ==
  \/ \E b \in SmallBatches : OnDrop(b)
  \/ \E id \in FileIds : RemoveFile(id)
  \/ ClearAll
  \/ Unmount
  \/ HandleUpload
  \/ HandleStartRender

exposedRender == <<renderStatus, renderPct, downloadUrl, renderErr>>

\* C1: a status response for a render identifier other than the exposed
\* (active) one never changes the exposed status, progress, download
\* location or error text.
C1_StalePollIgnored ==
  [][\A p \in BagToSet(pollReqs), o \in PollOutcomes :
       (PollSettled(p, o) /\ p.render_id # renderId) => UNCHANGED exposedRender]_vars

\* C5: at most one upload request is in flight, and in a state where an
\* upload is in progress or nothing is staged no upload request is sent and
\* handleUpload changes nothing.
C5_SingleFlightUpload ==
  [][/\ Cardinality(xhrs') <= 1
     /\ (isUploading \/ files = <<>>) =>
          /\ uploads' = uploads
          /\ {x.n : x \in xhrs'} \subseteq {x.n : x \in xhrs}
          /\ HandleUpload => UNCHANGED vars]_vars

\* C5 witness: one upload is in flight and marked in progress, the state in
\* which a further handleUpload returns early.
C5_Witness ==
  mounted /\ isUploading /\ Cardinality(xhrs) = 1 /\ files # <<>> /\ Sent < MaxRequests

\* C6: at most one interval is live, and it is the one pollRef holds.
C6_OneTimer == Cardinality(timers) <= 1 /\ timers \subseteq {pollRef}

\* C6 witness: two render starts were answered with no status response in
\* between, so the second answer found the first interval live and replaced it.
C6_Witness ==
  mounted /\ Cardinality(DOMAIN srv) = 2 /\ ticks = 0 /\ timers = {pollRef}

\* C7: without a job, or while the exposed status is queued or processing,
\* no render-start request is sent and handleStartRender changes nothing;
\* every request sent carries the identifier of a job an upload returned.
C7_StartOnlyWithJob ==
  [][/\ (job = NoJob \/ renderStatus \in {"queued", "processing"}) =>
          /\ starts' = starts
          /\ startReqs' \subseteq startReqs
          /\ HandleStartRender => UNCHANGED vars
     /\ \A q \in startReqs' : q.job_id \in 1..uploads']_vars

\* C7 witness: a render is queued for the current job, the state in which a
\* further handleStartRender returns early.
C7_Witness ==
  mounted /\ job # NoJob /\ renderStatus = "queued" /\ starts = 1 /\ Sent < MaxRequests

\* C8: the backend never holds two live (queued or processing) renders of the
\* current job.
C8_OneLiveRenderPerJob ==
  \A a, b \in DOMAIN srv :
    (mounted /\ a # b /\ srv[a].job_id = job /\ srv[b].job_id = job)
      => ~(Live(srv[a].status) /\ Live(srv[b].status))

\* C9: a status fetch that rejects, is answered non-2xx or has an unparsable
\* body leaves the exposed render state, the interval and pollRef as they were.
C9_FailedPollSwallowed ==
  [][\A p \in BagToSet(pollReqs), o \in PollOutcomes \ {"ok"} :
       PollSettled(p, o) => UNCHANGED <<renderVars, timers, pollRef>>]_vars

\* C9 witness: a failed fetch was swallowed, the interval is still live and
\* a fetch sent after it is in flight.
C9_Witness ==
  /\ mounted /\ pollCaught /\ ticks = 2 /\ BagCardinality(pollReqs) = 1
  /\ timers = {renderId} /\ renderStatus = "queued"

\* C10: with no user action after the render start, once a done response has
\* been applied the interval is cleared and the exposed state is and stays
\* done, progress as reported, download location API_URL + path.
DoneExposed ==
  /\ renderStatus = "done"
  /\ renderPct = 100
  /\ downloadUrl = API_URL \o "/dl/x.mp4"
  /\ timers = {}
Undisturbed ==
  mounted /\ starts = 1 /\ renderId = 1 /\ job = srv[1].job_id
C10_DoneIsFinal ==
  [][(Undisturbed /\ DoneExposed /\ ~UserAction) => DoneExposed']_vars

\* C11: a successful response with status error for the exposed render sets
\* the status to error, surfaces the server's message, clears the interval
\* and pollRef; an interval is only ever installed for a render the backend
\* has just created, so none is installed for that render again.
C11_ErrorStopsPolling ==
  [][/\ \A p \in BagToSet(pollReqs) :
          (PollSettled(p, "ok") /\ mounted /\ p.render_id = renderId
             /\ p.status = "error")
            => /\ renderStatus' = "error"
               /\ renderErr' = "ffmpeg failed"
               /\ timers' = {}
               /\ pollRef' = NoTimer
     /\ \A t \in timers' \ timers : t \notin DOMAIN srv]_vars

\* C11 witness: the exposed render ended in error, the message is shown and
\* no interval is live.
C11_Witness ==
  /\ mounted /\ renderId # NoRender /\ srv[renderId].status = "error"
  /\ renderStatus = "error" /\ renderErr = "ffmpeg failed" /\ timers = {}

(***************************************************************************)
(* Upload: properties                                                      *)
(***************************************************************************)
IsPrefix(s, t) == Len(s) <= Len(t) /\ SubSeq(t, 1, Len(s)) = s

\* the upload x ends in a non-2xx answer or a transport failure
UploadFailed(x) ==
  \/ UploadNetworkError(x)
  \/ \E a \in UploadAnswers(x.n) :
       ~(a.status \in 200..299) /\ UploadLoad(x, a.status, a.body)

FailedUploadState ==
  /\ isUploading' = FALSE
  /\ uploadError' # ""
  /\ job' = NoJob

\* C12 as stated: after a failed upload the flag is false, an error text is
\* shown, there is no job and the staging set is the one the upload was
\* invoked with.
C12_FailureKeepsInvokedSet ==
  [][\A x \in xhrs :
       (mounted /\ UploadFailed(x)) => FailedUploadState /\ files' = x.files]_vars

\* C12 amended: after a failed upload the flag is false, an error text is
\* shown, there is no job, the failure leaves the staging set untouched, and
\* that set begins with the entries the upload was invoked with, in order.
C12_FailureKeepsStaging ==
  [][\A x \in xhrs :
       (mounted /\ UploadFailed(x))
         => FailedUploadState /\ files' = files /\ IsPrefix(x.files, files')]_vars

\* C12 witness: a failed upload has been handled with files added meanwhile.
C12_Witness ==
  /\ mounted /\ ~isUploading /\ uploadError = "disk full" /\ job = NoJob
  /\ xhrs = {} /\ Len(files) = 2

\* the text C13 expects for a non-2xx answer
ExpectedFailText(status, body) ==
  IF "detail" \in DOMAIN body
    THEN "disk full"
    ELSE CASE status = 199 -> "Upload failed (199)"
           [] status = 300 -> "Upload failed (300)"
           [] status = 500 -> "Upload failed (500)"

\* C13: a non-2xx answer surfaces the server's detail when there is one and
\* "Upload failed (<status>)" otherwise, a transport failure surfaces the
\* network-error message, and every 2xx answer resolves without an error text.
C13_ErrorTextPrecedence ==
  [][\A x \in xhrs :
       /\ \A a \in AllUploadAnswers(x.n) :
            (mounted /\ UploadLoad(x, a.status, a.body)) =>
              IF a.status \in 200..299
                THEN uploadError' = "" /\ uploadPct' = 100 /\ ~isUploading'
                ELSE uploadError' = ExpectedFailText(a.status, a.body)
       /\ (mounted /\ UploadNetworkError(x))
            => uploadError' = "Network error during upload."]_vars

\* C13 witness: HTTP 500 with detail "disk full" has been surfaced.
C13_Witness ==
  mounted /\ uploads = 1 /\ xhrs = {} /\ ~isUploading /\ uploadError = "disk full"
\* C14: while an upload is in flight the exposed percentage never decreases
\* and equals each tick the transport reports, and a 2xx completion ends at
\* 100 with the job installed.
C14_ProgressMonotone ==
  [][/\ (mounted' /\ isUploading /\ isUploading') => uploadPct' >= uploadPct
     /\ \A x \in xhrs :
          /\ \A e \in ProgressEvents :
               (mounted /\ UploadProgress(x, e, TRUE))
                 => uploadPct' = (CASE e.loaded = 0 -> 0
                                    [] e.loaded = 1 -> 50
                                    [] e.loaded = 2 -> 100)
          /\ (mounted /\ UploadLoad(x, 200, [job_id |-> x.n]))
               => uploadPct' = 100 /\ job' = x.n]_vars
(***************************************************************************)
(* Clearing, removing and adding files: properties                         *)
(***************************************************************************)
IdleState ==
  /\ files = <<>>
  /\ job = NoJob
  /\ renderId = NoRender
  /\ renderStatus = Null
  /\ downloadUrl = ""
  /\ renderErr = ""
  /\ Outstanding = {}

\* C15: clearAll empties the staging set, the job and the render state,
\* releases every handle and leaves no poll timer, and from then on no step
\* other than a user action changes that.
C15_ClearIsFinal ==
  [][/\ ClearAll => (IdleState' /\ timers' = {})
     /\ (mounted' /\ IdleState /\ ~UserAction) => IdleState']_vars

\* C16: after removeFile there is no job and no render identifier, status,
\* download location or error text.
C16_RemoveDiscardsResults ==
  [][\A id \in FileIds :
       RemoveFile(id) => /\ job' = NoJob
                         /\ renderId' = NoRender
                         /\ renderStatus' = Null
                         /\ downloadUrl' = ""
                         /\ renderErr' = ""]_vars
\* C17: right after a drop there is no job, no render identifier or status,
\* the download location and both error texts are empty, both percentages
\* are 0, and the staging set is the old one extended by the accepted files,
\* cut at the cap.
C17_DropDiscardsResults ==
  [][\A b \in SmallBatches :
       OnDrop(b) => /\ job' = NoJob
                    /\ renderId' = NoRender
                    /\ renderStatus' = Null
                    /\ downloadUrl' = ""
                    /\ renderErr' = ""
                    /\ uploadError' = ""
                    /\ uploadPct' = 0
                    /\ renderPct' = 0
                    /\ IsPrefix(files, files')
                    /\ Len(files') = Min(Len(files) + Len(b), 25)]_vars

\* C17 witness: a drop came after the only upload had produced a job and a
\* render had been started for it, and nothing of them is exposed any more.
C17_Witness ==
  /\ mounted /\ drops = 2 /\ Len(files) = 2 /\ uploads = 1 /\ xhrs = {}
  /\ timers # {}
  /\ job = NoJob /\ renderId = NoRender /\ renderStatus = Null
  /\ uploadPct = 0 /\ renderPct = 0
(***************************************************************************)
(* Late results, teardown and the exposed render fields: properties        *)
(***************************************************************************)
\* C18: when an upload resolves, a job is installed only if the staging set
\* is still the one that upload was invoked with.
C18_StaleUploadIgnored ==
  [][\A x \in xhrs :
       (mounted /\ UploadLoad(x, 200, [job_id |-> x.n]))
         => (job' # NoJob => files' = x.files)]_vars

\* C19: once the component is unmounted no poll interval is live.
C19_NoTimerAfterUnmount == ~mounted => timers = {}

\* C20: the download location is non-empty only with status done, and the
\* render error text is non-empty only with status error.
C20_UrlAndErrorMatchStatus ==
  mounted => /\ (downloadUrl # "" => renderStatus = "done")
             /\ (renderErr # "" => renderStatus = "error")
(***************************************************************************)
(* Unreachable combinations and failure paths: properties                  *)
(***************************************************************************)
\* C21: the upload-in-progress flag is never true while the exposed render
\* status is queued or processing.
C21_NoUploadWhileRendering ==
  ~(isUploading /\ (renderStatus = "queued" \/ renderStatus = "processing"))

\* C22: when the upload transport resolves or rejects the flag becomes false,
\* and a failed render start sets an error text, creates no timer and does
\* not change the exposed render status or identifier.
C22_FailuresSettle ==
  [][/\ \A x \in xhrs :
          (mounted /\ (\/ UploadNetworkError(x)
                       \/ \E a \in UploadAnswers(x.n) :
                            UploadLoad(x, a.status, a.body)))
            => isUploading' = FALSE
     /\ \A q \in startReqs : \A m \in StartFailures :
          (mounted /\ StartRenderRejected(q, m))
            => /\ renderErr' # ""
               /\ timers' = timers
               /\ pollRef' = pollRef
               /\ renderStatus' = renderStatus
               /\ renderId' = renderId]_vars

\* C22 witness: an upload has settled and a later render start has failed,
\* leaving an error text, no timer and no render status.
C22_Witness ==
  /\ mounted /\ uploads >= 1 /\ xhrs = {} /\ ~isUploading
  /\ starts >= 1 /\ startReqs = {} /\ renderErr = "Render start failed"
  /\ timers = {} /\ renderStatus = Null /\ renderId = NoRender
(***************************************************************************)
(* Staging order: properties                                               *)
(***************************************************************************)
\* C23: after a drop the staging set is the first 25 entries of the previous
\* set followed by the batch: old entries keep their places, new entries
\* follow in batch order with fresh handles, and only the tail is cut.
C23_DropKeepsOrder ==
  [][\A b \in StagingBatches :
       OnDrop(b) =>
         /\ Len(files') = (IF Len(files) + Len(b) < 25
                             THEN Len(files) + Len(b) ELSE 25)
         /\ \A i \in 1..Len(files') :
              IF i <= Len(files)
                THEN files'[i] = files[i]
                ELSE /\ files'[i].id = b[i - Len(files)]
                     /\ files'[i].previewUrl = Len(revokes) + i - Len(files)]_vars

\* C23 witness: a second drop was cut at the cap, the first entry is still
\* the first file of the first drop and the last one comes from the second.
C23_Witness ==
  /\ mounted /\ drops = 2 /\ Len(files) = 25 /\ Len(revokes) = 37
  /\ files[1].previewUrl = 1 /\ files[25].previewUrl = 25
(***************************************************************************)
(* Retried upload: properties                                              *)
(***************************************************************************)
\* C24: while the upload-in-progress flag is true no job is present, and a
\* job becomes present only in the step in which the flag returns to false.
C24_NoJobWhileUploading ==
  [][/\ (mounted' /\ isUploading') => job' = NoJob
     /\ (mounted' /\ job = NoJob /\ job' # NoJob)
          => (isUploading /\ ~isUploading')]_vars

\* C24 witness: the only staged file is being uploaded a second time after
\* its first job was used to start a render, and no job is present.
C24_Witness ==
  /\ mounted /\ isUploading /\ uploads = 2 /\ starts >= 1
  /\ drops = 1 /\ Len(files) = 1 /\ job = NoJob
(***************************************************************************)
(* Consistency of the exposed view: properties                             *)
(***************************************************************************)
\* C25: whenever the exposed render status is queued or processing, a poll
\* interval is live for the exposed render identifier.
C25_LiveRenderIsPolled ==
  (mounted /\ (renderStatus = "queued" \/ renderStatus = "processing"))
    => renderId \in timers

\* C26: no file in the staging set has a preview handle that has been
\* released.
C26_StagedHandlesLive ==
  mounted => \A i \in DOMAIN files : revokes[files[i].previewUrl] = 0

\* C27: whenever a render status is exposed, a render identifier is exposed
\* and a job is present.
C27_StatusHasRenderAndJob ==
  (mounted /\ renderStatus # Null) => (renderId # NoRender /\ job # NoJob)

====
